---- MODULE Spec2Model ----
(***************************************************************************)
(* A model of the APSystems API client (api.py) and of the Home Assistant  *)
(* sensor platform built on it (sensor.py).                                *)
(*                                                                         *)
(* Text is a sequence of tokens: "/" is the separator str.split and        *)
(* str.join work on, every other token is a run of characters holding no   *)
(* "/".  Library calls whose result the program does not control (the wall *)
(* clock, uuid4, the HTTP exchange, the astral events) are inputs of the   *)
(* actions.                                                                *)
(***************************************************************************)
EXTENDS Integers, Sequences, FiniteSets, TLC

VARIABLES api, sent, call, state, sunset, attributes, fetched, now, sunriseAt, sunsetAt

vars == <<api, sent, call, state, sunset, attributes, fetched, now, sunriseAt, sunsetAt>>

----------------------------------------------------------------------------
(* Bounds of the model *)

\* The local day is the instants 0..MaxTime.
MaxTime == 2

----------------------------------------------------------------------------
(* Text *)

Slash == "/"

\* str.upper, token by token; tokens without cased letters are their own image.
UpperTok(t) ==
  CASE t = "get" -> "GET"
    [] t = "Get" -> "GET"
    [] t = "post" -> "POST"
    [] t = "summary" -> "SUMMARY"
    [] OTHER -> t

Upper(s) == [i \in 1..Len(s) |-> UpperTok(s[i])]

\* Index of the last "/" of s, 0 when it has none.
LastSlash(s) ==
  LET at == {i \in 1..Len(s) : s[i] = Slash}
  IN  IF at = {} THEN 0 ELSE CHOOSE i \in at : \A j \in at : j <= i

\* s.split("/")[-1]: the text after the last "/", all of s when it has none.
LastSegment(s) == SubSeq(s, LastSlash(s) + 1, Len(s))

\* "/".join(parts)
RECURSIVE JoinSlash(_)
JoinSlash(parts) ==
  IF parts = <<>> THEN <<>>
  ELSE IF Len(parts) = 1 THEN parts[1]
  ELSE parts[1] \o <<Slash>> \o JoinSlash(Tail(parts))

Digit(d) == CASE d = 0 -> "0" [] d = 1 -> "1" [] d = 2 -> "2" [] d = 3 -> "3"
              [] d = 4 -> "4" [] d = 5 -> "5" [] d = 6 -> "6" [] d = 7 -> "7"
              [] d = 8 -> "8" [] d = 9 -> "9"

\* f"{n}" of a non-negative int: its decimal digits.
RECURSIVE Decimal(_)
Decimal(n) == IF n < 10 THEN <<Digit(n)>> ELSE Decimal(n \div 10) \o <<Digit(n % 10)>>

\* int(round(x)) of a clock reading given in half seconds: round() takes a
\* half to the even neighbour.
RoundHalfEven(halves) ==
  LET f == halves \div 2
  IN  IF halves % 2 = 0 THEN f ELSE IF f % 2 = 0 THEN f ELSE f + 1

----------------------------------------------------------------------------
(* The signer: api.py, _hmac_sha256 and _request_headers *)

\* hmac.new(key, message, sha256).digest(): the digest is a term over its key
\* and message, equal only for equal key and message.
HmacDigest(key, message) == [alg |-> "sha256", key |-> key, msg |-> message]

\* base64.b64encode(...).decode("utf-8")
B64(bytes) == [b64 |-> bytes]

hmac_sha256(key, message) == B64(HmacDigest(key, message))

SignatureMethod == <<"HmacSHA256">>

\* A signer that signs the whole request path.
SigningStringWholePath(timestamp, nonce, appId, request_method, request_path) ==
  JoinSlash(<< timestamp, nonce, appId, request_path,
               Upper(request_method), SignatureMethod >>)

\* The string that is signed.
SigningString(timestamp, nonce, appId, request_method, request_path) ==
  JoinSlash(<< timestamp, nonce, appId, LastSegment(request_path),
               Upper(request_method), SignatureMethod >>)

HeaderNames ==
  {"content-type", "x-ca-appid", "x-ca-timestamp", "x-ca-nonce",
   "x-ca-signature-method", "x-ca-signature"}

\* _request_headers of a client a, with the clock reading and the uuid4 hex
\* the call draws.
request_headers(a, request_method, request_path, clockHalves, uuidHex) ==
  LET X_CA_AppId == a.api_app_id
      X_CA_Timestamp == Decimal(RoundHalfEven(clockHalves))
      X_CA_Nonce == uuidHex
      X_CA_Signature ==
        hmac_sha256(a.api_app_secret,
                    SigningString(X_CA_Timestamp, X_CA_Nonce, X_CA_AppId,
                                  request_method, request_path))
  IN  [h \in HeaderNames |->
        CASE h = "content-type" -> [text |-> <<"application", Slash, "json">>]
          [] h = "x-ca-appid" -> [text |-> X_CA_AppId]
          [] h = "x-ca-timestamp" -> [text |-> X_CA_Timestamp]
          [] h = "x-ca-nonce" -> [text |-> X_CA_Nonce]
          [] h = "x-ca-signature-method" -> [text |-> SignatureMethod]
          [] h = "x-ca-signature" -> X_CA_Signature]

----------------------------------------------------------------------------
(* JSON and the HTTP exchange, as the requests library hands them over *)

None == "None"

Num(n) == [t |-> "num", v |-> n]
Str(s) == [t |-> "str", v |-> s]
Null == [t |-> "null"]
Arr(items) == [t |-> "arr", v |-> items]
Obj(m) == [t |-> "obj", m |-> m]

\* A response body is a text: either no JSON at all, or the JSON value it
\* denotes written in some layout (whitespace between the tokens).
Layouts == {"compact", "indent4"}
NotJson == [kind |-> "text"]
JsonText(layout, value) == [kind |-> "json", layout |-> layout, value |-> value]

\* json.dumps(data, indent=4)
json_dumps_indent4(data) == JsonText("indent4", data)

\* json.loads / response.json() of a JSON text
json_loads(text) == text.value

\* Python's  x != 0  for a decoded JSON value.
NotEqualZero(x) == ~(x.t = "num" /\ x.v = 0)

Return(value) == [raised |-> FALSE, value |-> value]
Raise(exc, arg) == [raised |-> TRUE, exc |-> exc, arg |-> arg]
NoArg == [none |-> TRUE]

\* Response.raise_for_status raises HTTPError for the 4xx and 5xx statuses.
RaisesForStatus(status) == 400 <= status /\ status < 600

----------------------------------------------------------------------------
(* The records: api.py, SystemSummaryData and ECUMinutelyEnergyData *)

SystemSummaryFields == {"month", "year", "today", "lifetime"}
ECUMinutelyEnergyFields == {"today", "time", "power", "energy"}

\* A record that drops the keys it has no field for.
SystemSummaryDataLenient(kwargs) ==
  IF kwargs.t # "obj" THEN Raise("TypeError", NoArg)
  ELSE IF ~(SystemSummaryFields \subseteq DOMAIN kwargs.m) THEN Raise("TypeError", NoArg)
  ELSE Return([cls |-> "SystemSummaryData",
               month |-> kwargs.m["month"], year |-> kwargs.m["year"],
               today |-> kwargs.m["today"], lifetime |-> kwargs.m["lifetime"]])

\* SystemSummaryData(**kwargs): the generated __init__ has one required
\* parameter per field and no other.
SystemSummaryData(kwargs) ==
  IF kwargs.t # "obj" THEN Raise("TypeError", NoArg)
  ELSE IF DOMAIN kwargs.m # SystemSummaryFields THEN Raise("TypeError", NoArg)
  ELSE Return([cls |-> "SystemSummaryData",
               month |-> kwargs.m["month"], year |-> kwargs.m["year"],
               today |-> kwargs.m["today"], lifetime |-> kwargs.m["lifetime"]])

\* ECUMinutelyEnergyData(**kwargs)
ECUMinutelyEnergyData(kwargs) ==
  IF kwargs.t # "obj" THEN Raise("TypeError", NoArg)
  ELSE IF DOMAIN kwargs.m # ECUMinutelyEnergyFields THEN Raise("TypeError", NoArg)
  ELSE Return([cls |-> "ECUMinutelyEnergyData",
               today |-> kwargs.m["today"], time |-> kwargs.m["time"],
               power |-> kwargs.m["power"], energy |-> kwargs.m["energy"]])

----------------------------------------------------------------------------
(* The API client: api.py, system_summary and ecu_minutely_energy *)

base_url == <<"https:", Slash, Slash, "api.apsystemsema.com:9282">>

\* urljoin(base_url, request_path) for a request_path that starts with "/":
\* the path replaces the (empty) path of base_url.
urljoin(base, request_path) == base \o request_path

SummaryPath(sid) ==
  <<Slash, "user", Slash, "api", Slash, "v2", Slash, "systems", Slash,
    "summary", Slash>> \o sid

EnergyPath(sid, eid) ==
  <<Slash, "user", Slash, "api", Slash, "v2", Slash, "systems", Slash>> \o sid
    \o <<Slash, "devices", Slash, "ecu", Slash, "energy", Slash>> \o eid

NoParams == <<>>

\* The requests.get call system_summary makes.
SummaryRequest(a, clockHalves, uuidHex) ==
  [method |-> "GET",
   url |-> urljoin(base_url, SummaryPath(a.sid)),
   params |-> NoParams,
   headers |-> request_headers(a, <<"GET">>, SummaryPath(a.sid), clockHalves, uuidHex)]

\* The requests.get call ecu_minutely_energy makes; today is
\* datetime.now().strftime("%Y-%m-%d").
EnergyRequest(a, clockHalves, uuidHex, today) ==
  [method |-> "GET",
   url |-> urljoin(base_url, EnergyPath(a.sid, a.ecu_id)),
   params |-> <<"energy_level", "minutely", "date_range", today>>,
   headers |-> request_headers(a, <<"GET">>, EnergyPath(a.sid, a.ecu_id),
                               clockHalves, uuidHex)]

\* A client whose exception carries the code alone.
ResponseExceptionCodeOnly(data) ==
  Raise("ResponseException",
        [prefix |-> "Non zero response code: ", data |-> json_dumps_indent4(data.m["code"])])

\* The exception raised on a non-zero code.
ResponseException(data) ==
  Raise("ResponseException",
        [prefix |-> "Non zero response code: ", data |-> json_dumps_indent4(data)])

\* A client that decodes the body and checks the envelope before the status.
EnvelopeStatusLast(response) ==
  IF response.kind = "neterr" THEN Raise("ConnectionError", NoArg)
  ELSE IF response.body.kind # "json" THEN Raise("JSONDecodeError", NoArg)
  ELSE LET data == json_loads(response.body)
       IN  IF data.t # "obj" THEN Raise("TypeError", NoArg)
           ELSE IF "code" \notin DOMAIN data.m THEN Raise("KeyError", [key |-> "code"])
           ELSE IF NotEqualZero(data.m["code"]) THEN ResponseException(data)
           ELSE IF RaisesForStatus(response.status)
             THEN Raise("HTTPError", [status |-> response.status])
           ELSE IF "data" \notin DOMAIN data.m THEN Raise("KeyError", [key |-> "data"])
           ELSE Return(data.m["data"])

\* What follows requests.get in both operations: the status check, the
\* decoding of the body, the check of the envelope.  Yields the raised
\* exception, or Return(data["data"]).
Envelope(response) ==
  IF response.kind = "neterr" THEN Raise("ConnectionError", NoArg)
  ELSE IF RaisesForStatus(response.status)
    THEN Raise("HTTPError", [status |-> response.status])
  ELSE IF response.body.kind # "json" THEN Raise("JSONDecodeError", NoArg)
  ELSE LET data == json_loads(response.body)
       IN  IF data.t # "obj" THEN Raise("TypeError", NoArg)
           ELSE IF "code" \notin DOMAIN data.m THEN Raise("KeyError", [key |-> "code"])
           ELSE IF NotEqualZero(data.m["code"]) THEN ResponseException(data)
           ELSE IF "data" \notin DOMAIN data.m THEN Raise("KeyError", [key |-> "data"])
           ELSE Return(data.m["data"])

\* The outcome of system_summary for the response its request gets.
system_summary(response) ==
  LET e == Envelope(response)
  IN  IF e.raised THEN e ELSE SystemSummaryData(e.value)

\* The outcome of ecu_minutely_energy for the response its request gets.
ecu_minutely_energy(response) ==
  LET e == Envelope(response)
  IN  IF e.raised THEN e ELSE ECUMinutelyEnergyData(e.value)

----------------------------------------------------------------------------
(* The sensor: sensor.py *)

CUSTOM_CONF_SUNSET == "sunset"
STATE_UNAVAILABLE == "unavailable"

\* The keys of SENSORS: setup_platform makes one sensor for each.
SensorTypes == {"energy_today", "energy_latest", "power_latest"}

\* PLATFORM_SCHEMA on the optional key: the default takes the place of a
\* missing key, a given string is kept as it is.
PlatformSchema(config) ==
  IF CUSTOM_CONF_SUNSET \in DOMAIN config THEN config
  ELSE [k \in DOMAIN config \cup {CUSTOM_CONF_SUNSET} |->
          IF k = CUSTOM_CONF_SUNSET THEN "off" ELSE config[k]]

\* The client setup_platform builds from the validated config.
APSystemsApi(config) ==
  [api_app_id |-> config.api_app_id, api_app_secret |-> config.api_app_secret,
   sid |-> config.sid, ecu_id |-> config.ecu_id]

\* An aware datetime: an instant and the zone it is shown in.
DateTime(instant, tz) == [instant |-> instant, tz |-> tz]

\* homeassistant.util.dt.as_local: the same instant in the local zone.
as_local(dt) == DateTime(dt.instant, "local")

\* Missing astral event (get_astral_event_date gives None on a date on which
\* the sun does not rise or set).
NoEvent == 0 - 1

NoneDateTime == [instant |-> NoEvent, tz |-> "None"]

\* find_start_time / find_stop_time: the event of the local date, in UTC.
find_time(event) == IF event = NoEvent THEN NoneDateTime ELSE DateTime(event, "UTC")

\* A window that is open before sunset only.
available_before_sunset(flag, utcnowInstant, sunrise, sunsetEvent) ==
  IF flag = "False" THEN Return(TRUE)
  ELSE IF sunrise = NoEvent \/ sunsetEvent = NoEvent THEN Raise("AttributeError", NoArg)
  ELSE Return(sunrise <= utcnowInstant /\ utcnowInstant < sunsetEvent)

\* A flag that is taken for a boolean: every text but "True" disables.
available_unless_true(flag, utcnowInstant, sunrise, sunsetEvent) ==
  IF flag # "True" THEN Return(TRUE)
  ELSE IF sunrise = NoEvent \/ sunsetEvent = NoEvent THEN Raise("AttributeError", NoArg)
  ELSE Return(sunrise <= utcnowInstant /\ utcnowInstant <= sunsetEvent)

\* A window that is computed before the flag is looked at.
available_window_first(flag, utcnowInstant, sunrise, sunsetEvent) ==
  IF sunrise = NoEvent \/ sunsetEvent = NoEvent THEN Raise("AttributeError", NoArg)
  ELSE IF flag = "False" THEN Return(TRUE)
  ELSE Return(sunrise <= utcnowInstant /\ utcnowInstant <= sunsetEvent)

\* APSystemsSensor.available, with the reading of dt_utcnow() and the two
\* astral events of the date.  as_local(None) raises AttributeError, in the
\* comparison or in the message logged after it.
available(flag, utcnowInstant, sunrise, sunsetEvent) ==
  IF flag = "False" THEN Return(TRUE)
  ELSE LET utc_now == DateTime(utcnowInstant, "UTC")
           localNow == as_local(utc_now)
           start_time == find_time(sunrise)
           stop_time == find_time(sunsetEvent)
       IN  IF start_time = NoneDateTime \/ stop_time = NoneDateTime
             THEN Raise("AttributeError", NoArg)
           ELSE IF /\ as_local(start_time).instant <= localNow.instant
                   /\ localNow.instant <= as_local(stop_time).instant
             THEN Return(TRUE)
           ELSE Return(FALSE)

\* The classes of the exceptions the client raises; each derives from
\* Exception.
DerivedFromException ==
  {"ConnectionError", "HTTPError", "JSONDecodeError", "TypeError", "KeyError",
   "ResponseException", "AttributeError"}

\* A handler for the errors of the requests library alone.
CaughtRequestsOnly(exc) == exc \in {"ConnectionError", "HTTPError"}

\* except Exception as e
Caught(exc) == exc \in DerivedFromException

\* An update that asks the window first, and fetches only inside it.
update_state_gated(old, outcome) ==
  IF available(sunset, now, sunriseAt, sunsetAt) # Return(TRUE) THEN STATE_UNAVAILABLE
  ELSE IF ~outcome.raised THEN "TEST"
  ELSE IF Caught(outcome.exc) THEN STATE_UNAVAILABLE
  ELSE old

\* APSystemsSensor.update, given the outcome of self._api.system_summary():
\* the new _state (old when the exception is not caught: it escapes).
update_state(old, outcome) ==
  IF ~outcome.raised THEN "TEST"
  ELSE IF Caught(outcome.exc) THEN STATE_UNAVAILABLE
  ELSE old

\* An update that fetches a second time.
update_requests_twice(a, clockHalves, uuidHex) ==
  <<SummaryRequest(a, clockHalves, uuidHex), SummaryRequest(a, clockHalves, uuidHex)>>

\* The requests.get calls one update makes: the one of its system_summary.
update_requests(a, clockHalves, uuidHex) ==
  <<SummaryRequest(a, clockHalves, uuidHex)>>

----------------------------------------------------------------------------
(* Inputs *)

AppIds == {<<"app1">>, <<"app2">>}
Secrets == {<<"k1">>, <<"k2">>}
Sids == {<<"S1">>, <<"S2">>}
EcuIds == {<<"E1">>}

Clients ==
  [api_app_id : AppIds, api_app_secret : Secrets, sid : Sids, ecu_id : EcuIds]

\* Readings of the wall clock, in half seconds, and uuid4().hex values.
ClockReadings == {2000, 2001, 2003}
Uuids == {<<"0f0f">>, <<"a1b2">>}
\* The one reading and uuid the calls of the client are given: what the
\* headers make of them is explored by SpecSigner.
CallClockReadings == {2001}
CallUuids == {<<"0f0f">>}
Dates == {<<"2024-06-01">>}

Methods == {<<"GET">>, <<"get">>, <<"Get">>, <<"post">>}
Paths ==
  {SummaryPath(<<"S1">>), EnergyPath(<<"S1">>, <<"E1">>), <<"summary">>,
   <<Slash, "summary", Slash>>}

\* Keys a data object may hold, and the value the server gives each.
FieldValue(k) ==
  CASE k = "month" -> Num(123)
    [] k = "year" -> Num(4567)
    [] k = "today" -> Num(12)
    [] k = "lifetime" -> Num(9999)
    [] k = "time" -> Arr(<<"08:00", "08:05">>)
    [] k = "power" -> Arr(<<10, 20>>)
    [] k = "energy" -> Arr(<<1, 2>>)
    [] OTHER -> Num(0)

\* The fields of a record, with one key more, and with one key less.
KeySetsNear(fields) == {fields, fields \cup {"extra"}, fields \ {"today"}}

KeySets == KeySetsNear(SystemSummaryFields) \cup KeySetsNear(ECUMinutelyEnergyFields) \cup {{}}

DataValues == {Obj([k \in ks |-> FieldValue(k)]) : ks \in KeySets} \cup {Null}

Codes == {Num(0), Num(1), Str("0")}

Envelopes ==
  {Obj([k \in {"code", "data"} |-> IF k = "code" THEN c ELSE d]) :
     c \in Codes, d \in DataValues}
  \cup {Obj([k \in {"code"} |-> c]) : c \in Codes}
  \cup {Obj([k \in {"data"} |-> d]) : d \in {Null}}
  \cup {Arr(<<>>)}

BodiesIn(layouts) == {JsonText(l, v) : l \in layouts, v \in Envelopes} \cup {NotJson}

Statuses == {200, 300, 404, 500}

NetworkError == [kind |-> "neterr"]
HttpResponse(status, body) == [kind |-> "http", status |-> status, body |-> body]

Responses ==
  {HttpResponse(st, b) : st \in Statuses, b \in BodiesIn(Layouts)} \cup {NetworkError}

\* The responses the polls of the sensors are given: the bodies around the
\* summary record under status 200, and one body under every other status
\* (SpecApi runs the client on all of Responses).
PollBodies ==
  {NotJson, JsonText("compact", Arr(<<>>)),
   JsonText("compact", Obj([k \in {"code"} |-> Num(0)]))}
  \cup {JsonText("compact",
                 Obj([k \in {"code", "data"} |->
                        IF k = "code" THEN c ELSE Obj([f \in ks |-> FieldValue(f)])])) :
          c \in {Num(0), Num(1)}, ks \in KeySetsNear(SystemSummaryFields)}

PollResponses ==
  {NetworkError}
  \cup {HttpResponse(200, b) : b \in PollBodies}
  \cup {HttpResponse(st, NotJson) : st \in Statuses \ {200}}

SunsetTexts == {"False", "false", "off", "True"}

Configs ==
  LET required == [api_app_id : {<<"app1">>}, api_app_secret : {<<"k1">>},
                   sid : Sids, ecu_id : EcuIds]
  IN  required \cup
      {[k \in DOMAIN c \cup {CUSTOM_CONF_SUNSET} |->
          IF k = CUSTOM_CONF_SUNSET THEN t ELSE c[k]] : c \in required, t \in SunsetTexts}

Times == 0..MaxTime
Events == Times \cup {NoEvent}

----------------------------------------------------------------------------
(* State *)

\* api: the fields of the APSystemsApi instance.
\* sent: the requests.get calls made by the operation of the client that ran
\*   last, in order (the exchange is synchronous: nothing stays in flight).
\* call: the operation that ran last, with its inputs and its result.
\* state, sunset, attributes: _state, _sunset and _attributes of each sensor.
\* fetched: whether the system_summary call of each sensor's last update
\*   returned ("ok") or raised ("failed"); "none" before the first update.
\* now, sunriseAt, sunsetAt: the instant dt_utcnow() reads, and the two astral
\*   events of the local date.
NoCall == [op |-> "none"]
NoSensors == [s \in SensorTypes |-> None]
NoAttributes == [s \in SensorTypes |-> <<>>]
NotFetched == [s \in SensorTypes |-> "none"]

\* The parts of the state a specification leaves out keep these values.
NoPlatform ==
  /\ state = NoSensors /\ fetched = NotFetched /\ attributes = NoAttributes
  /\ sunset = "off" /\ now = 0 /\ sunriseAt = 0 /\ sunsetAt = 0

PlatformVars == <<state, fetched, attributes, sunset, now, sunriseAt, sunsetAt>>

----------------------------------------------------------------------------
(* The signer called on its own *)

SignerInit ==
  /\ api \in {c \in Clients : c.sid = <<"S1">>}
  /\ sent = <<>> /\ call = NoCall /\ NoPlatform

\* One call of _request_headers.
RequestHeaders ==
  \E m \in Methods, p \in Paths, c \in ClockReadings, u \in Uuids :
    /\ call' = [op |-> "request_headers", method |-> m, path |-> p, clock |-> c,
                uuid |-> u, headers |-> request_headers(api, m, p, c, u)]
    /\ UNCHANGED <<api, sent, PlatformVars>>

SignerNext == RequestHeaders

SpecSigner == SignerInit /\ [][SignerNext]_vars

----------------------------------------------------------------------------
(* The API client called on its own (as the module's __main__ does) *)

ApiInit ==
  /\ api \in {c \in Clients : c.api_app_id = <<"app1">> /\ c.api_app_secret = <<"k1">>}
  /\ sent = <<>> /\ call = NoCall /\ NoPlatform

SystemSummary ==
  \E c \in CallClockReadings, u \in CallUuids :
    /\ sent' = <<SummaryRequest(api, c, u)>>
    /\ \E r \in Responses : call' = [op |-> "system_summary", response |-> r, outcome |-> system_summary(r)]
    /\ UNCHANGED <<api, PlatformVars>>

EcuMinutelyEnergy ==
  \E c \in CallClockReadings, u \in CallUuids, d \in Dates :
    /\ sent' = <<EnergyRequest(api, c, u, d)>>
    /\ \E r \in Responses :
         call' = [op |-> "ecu_minutely_energy", response |-> r,
                  outcome |-> ecu_minutely_energy(r)]
    /\ UNCHANGED <<api, PlatformVars>>

ApiNext == SystemSummary \/ EcuMinutelyEnergy

SpecApi == ApiInit /\ [][ApiNext]_vars

----------------------------------------------------------------------------
(* The sensor platform: setup_platform, then the host polling the sensors *)

\* The state setup_platform leaves for a config: one client, one sensor per
\* entry of SENSORS.
SetupPlatform(config) ==
  LET valid == PlatformSchema(config)
  IN  /\ api = APSystemsApi(valid)
      /\ sunset = valid[CUSTOM_CONF_SUNSET]
      /\ state = NoSensors
      /\ attributes = NoAttributes
      /\ fetched = NotFetched
      /\ sent = <<>>
      /\ call = NoCall

\* Polling: the option left out or set to "False", on a date whose sun sets
\* as the day ends.
SensorInit ==
  /\ \E config \in Configs :
       /\ CUSTOM_CONF_SUNSET \in DOMAIN config => config[CUSTOM_CONF_SUNSET] = "False"
       /\ SetupPlatform(config)
  /\ now = 0
  /\ sunriseAt \in Times
  /\ sunsetAt = MaxTime

\* APSystemsSensor.update of sensor s.
Update(s) ==
  \E c \in CallClockReadings, u \in CallUuids :
    /\ sent' = update_requests(api, c, u)
    /\ \E r \in PollResponses :
         LET outcome == system_summary(r)
         IN  /\ state' = [state EXCEPT ![s] = update_state(state[s], outcome)]
             /\ fetched' = [fetched EXCEPT ![s] =
                              IF outcome.raised THEN "failed" ELSE "ok"]
             /\ call' = [op |-> "update", sensor |-> s,
                         exc |-> IF outcome.raised THEN outcome.exc ELSE None,
                         escaped |-> outcome.raised /\ ~Caught(outcome.exc)]
    /\ UNCHANGED <<api, sunset, attributes, now, sunriseAt, sunsetAt>>

\* The host reading the available property of sensor s.
Available(s) ==
  /\ call' = [op |-> "available", sensor |-> s, utcnow |-> now,
              result |-> available(sunset, now, sunriseAt, sunsetAt)]
  /\ UNCHANGED <<api, sent, state, fetched, sunset, attributes, now, sunriseAt, sunsetAt>>

\* Time passing within the local date.
Tick ==
  /\ now < MaxTime
  /\ now' = now + 1
  /\ UNCHANGED <<api, sent, call, state, fetched, sunset, attributes, sunriseAt, sunsetAt>>

Next ==
  \/ \E s \in SensorTypes : Update(s)
  \/ \E s \in SensorTypes : Available(s)
  \/ Tick

Spec == SensorInit /\ [][Next]_vars

----------------------------------------------------------------------------
(* The availability window on its own: every option, every pair of events *)

WindowInit ==
  /\ \E config \in Configs : SetupPlatform(config)
  /\ now = 0
  /\ sunriseAt \in Events
  /\ sunsetAt \in Events

WindowNext ==
  \/ \E s \in SensorTypes : Available(s)
  \/ Tick

SpecWindow == WindowInit /\ [][WindowNext]_vars

----------------------------------------------------------------------------
(* The signed headers *)

\* C1: a call of _request_headers returns exactly six headers, and its
\* x-ca-signature is base64(HMAC-SHA256(secret, S)) for S the "/"-joined
\* sequence of the emitted x-ca-timestamp, the emitted x-ca-nonce, the emitted
\* x-ca-appid, the text of the path after its last "/", the method in upper
\* case and the literal HmacSHA256; any call with the same method, path,
\* timestamp and nonce returns the same headers.  For GET-as-"get" on the
\* summary path of site S1 at timestamp 1000 the string is spelled out.
C1_SignedHeaders ==
  call.op = "request_headers" =>
    LET h == call.headers
        S == JoinSlash(<< h["x-ca-timestamp"].text, h["x-ca-nonce"].text,
                          h["x-ca-appid"].text, LastSegment(call.path),
                          Upper(call.method), <<"HmacSHA256">> >>)
    IN  /\ Cardinality(DOMAIN h) = 6
        /\ h["x-ca-signature"] = B64(HmacDigest(api.api_app_secret, S))
        /\ h["x-ca-appid"].text = api.api_app_id
        /\ h["x-ca-nonce"].text = call.uuid
        /\ h["x-ca-signature-method"].text = <<"HmacSHA256">>
        /\ \A c \in ClockReadings :
             RoundHalfEven(c) = RoundHalfEven(call.clock) =>
               request_headers(api, call.method, call.path, c, call.uuid) = h
        /\ ( /\ call.method = <<"get">>
             /\ call.path = <<"/", "user", "/", "api", "/", "v2", "/", "systems",
                              "/", "summary", "/", "S1">>
             /\ call.clock \in {2000, 2001}
             /\ call.uuid = <<"0f0f">>
             /\ api.api_app_id = <<"app1">> )
           => S = <<"1", "0", "0", "0", "/", "0f0f", "/", "app1", "/", "S1", "/",
                    "GET", "/", "HmacSHA256">>

\* Reached: a lower-case method signed for the energy path, at a clock
\* reading that rounds to the timestamp of another reading.
C1_Witness ==
  /\ call.op = "request_headers"
  /\ call.method = <<"get">>
  /\ call.path = EnergyPath(<<"S1">>, <<"E1">>)
  /\ call.clock = 2001
  /\ call.headers["x-ca-timestamp"].text = <<"1", "0", "0", "0">>

----------------------------------------------------------------------------
(* The client's outcomes *)

\* The outcome operation op has for a response.
OutcomeOf(op, response) ==
  IF op = "system_summary" THEN system_summary(response)
  ELSE ecu_minutely_energy(response)

ApiCalled == call.op \in {"system_summary", "ecu_minutely_energy"}

\* The last call got a 2xx response whose body decodes to an object with a
\* code.
DecodedWithCode ==
  /\ ApiCalled
  /\ call.response.kind = "http"
  /\ 200 <= call.response.status /\ call.response.status < 300
  /\ call.response.body.kind = "json"
  /\ call.response.body.value.t = "obj"
  /\ "code" \in DOMAIN call.response.body.value.m

CodeOf(response) == response.body.value.m["code"]

\* C2, as claimed: on a successful HTTP call whose decoded body has
\* code != 0 the operation raises ResponseException, and the raw response
\* body is retrievable from the raised error: no response with another raw
\* body raises the same error.
C2_RawBodyRetrievable ==
  (DecodedWithCode /\ CodeOf(call.response) # Num(0)) =>
    /\ call.outcome.raised /\ call.outcome.exc = "ResponseException"
    /\ \A r \in Responses :
         OutcomeOf(call.op, r) = call.outcome => r.body = call.response.body

\* C2, amended: on a successful HTTP call whose decoded body has code != 0
\* the operation raises ResponseException; the error carries the text
\* "Non zero response code: " followed by the decoded body serialised again
\* with indent=4, from which the decoded body is read back unchanged, and no
\* response with another decoded body raises the same error.
C2_DecodedBodyRetrievable ==
  (DecodedWithCode /\ CodeOf(call.response) # Num(0)) =>
    /\ call.outcome.raised /\ call.outcome.exc = "ResponseException"
    /\ call.outcome.arg.prefix = "Non zero response code: "
    /\ call.outcome.arg.data.kind = "json"
    /\ call.outcome.arg.data.layout = "indent4"
    /\ json_loads(call.outcome.arg.data) = call.response.body.value
    /\ \A r \in Responses :
         OutcomeOf(call.op, r) = call.outcome =>
           /\ r.kind = "http" /\ r.body.kind = "json"
           /\ r.body.value = call.response.body.value

\* Reached: ecu_minutely_energy raising on {"code":1,"data":{}} sent in the
\* compact layout.
C2_Witness ==
  /\ call.op = "ecu_minutely_energy"
  /\ call.response = HttpResponse(200, JsonText("compact",
       Obj([k \in {"code", "data"} |-> IF k = "code" THEN Num(1) ELSE Obj(<<>>)])))
  /\ call.outcome.raised /\ call.outcome.exc = "ResponseException"

\* The data of the last call's response, when its body decodes to an object
\* holding one.
HasData ==
  /\ call.response.kind = "http"
  /\ call.response.body.kind = "json"
  /\ call.response.body.value.t = "obj"
  /\ "data" \in DOMAIN call.response.body.value.m

DataOf(response) == response.body.value.m["data"]

\* C3: an operation returns a record only if the keys of data are exactly the
\* record's fields (month, year, today, lifetime for system_summary; today,
\* time, power, energy for ecu_minutely_energy), each field then holding the
\* value of its key; on a response with code == 0 that passes the status
\* check it returns the record when the keys are exactly the fields and
\* raises when a field is missing or another key is present.
C3_ExactFields ==
  ApiCalled =>
    LET fields == IF call.op = "system_summary"
                    THEN {"month", "year", "today", "lifetime"}
                    ELSE {"today", "time", "power", "energy"}
        exact == /\ HasData
                 /\ DataOf(call.response).t = "obj"
                 /\ DOMAIN DataOf(call.response).m = fields
    IN  /\ ~call.outcome.raised =>
             /\ exact
             /\ DOMAIN call.outcome.value = fields \cup {"cls"}
             /\ \A f \in fields : call.outcome.value[f] = DataOf(call.response).m[f]
        /\ (DecodedWithCode /\ CodeOf(call.response) = Num(0)) =>
             (call.outcome.raised <=> ~exact)

\* Reached: system_summary raising on a code-0 response whose data has the
\* four fields and one key more.
C3_Witness ==
  /\ call.op = "system_summary"
  /\ DecodedWithCode /\ CodeOf(call.response) = Num(0)
  /\ HasData /\ DataOf(call.response).t = "obj"
  /\ DOMAIN DataOf(call.response).m = {"month", "year", "today", "lifetime", "extra"}
  /\ call.outcome.raised /\ call.outcome.exc = "TypeError"

----------------------------------------------------------------------------
(* The sensors *)

\* C4: no exception escapes an update, and once a sensor has been updated
\* its state is "unavailable" exactly when the fetch of its last update
\* failed: "TEST" after a fetch that returned, whatever the state before.
C4_UnavailableIffLastFetchFailed ==
  /\ call.op = "update" => ~call.escaped
  /\ \A s \in SensorTypes :
       /\ fetched[s] = "failed" => state[s] = "unavailable"
       /\ fetched[s] = "ok" => state[s] = "TEST"
       /\ fetched[s] = "none" => state[s] = "None"

\* Reached: an update whose fetch raised a decode error leaving its sensor
\* unavailable, beside a sensor whose last fetch returned.
C4_Witness ==
  /\ call.op = "update" /\ call.exc = "JSONDecodeError"
  /\ state[call.sensor] = "unavailable"
  /\ \E t \in SensorTypes : t # call.sensor /\ state[t] = "TEST"

\* A step that is an update: the last call becomes an update while the
\* clock stands.
UpdateStep == call'.op = "update" /\ now' = now

OutsideWindow == now < sunriseAt \/ sunsetAt < now

\* C9: reading available changes neither a sensor's state nor the requests
\* made; an update makes its request and sets the state of its sensor from
\* the outcome of the fetch alone, also outside the window with the window
\* enabled; and every sensor's state is determined by the outcome of its
\* last fetch.
C9_StateFromFetchAlone ==
  [][/\ (call'.op = "available" /\ call' # call) =>
          (state' = state /\ fetched' = fetched /\ sent' = sent)
     /\ UpdateStep =>
          /\ Len(sent') = 1
          /\ fetched'[call'.sensor] # "none"
          /\ state'[call'.sensor] =
               IF fetched'[call'.sensor] = "ok" THEN "TEST" ELSE "unavailable"
     /\ \A s \in SensorTypes :
          fetched'[s] = fetched[s] => state'[s] = state[s]]_vars

\* Reached: with the window enabled and the instant before sunrise, an
\* update whose fetch returned has set its sensor to "TEST".
C9_Witness ==
  /\ sunset # "False" /\ OutsideWindow
  /\ call.op = "update" /\ call.exc = "None"
  /\ state[call.sensor] = "TEST"

----------------------------------------------------------------------------
(* The availability window *)

AvailableRead == call.op = "available"

EventsExist == sunriseAt # NoEvent /\ sunsetAt # NoEvent

\* C5: with the window enabled and both events of the date given,
\* available returns true exactly when sunrise <= now <= sunset, the two
\* ends included, and false otherwise.
C5_WindowInclusive ==
  (AvailableRead /\ sunset # "False" /\ EventsExist) =>
    /\ ~call.result.raised
    /\ call.result.value = (sunriseAt <= call.utcnow /\ call.utcnow <= sunsetAt)

\* Reached: available read as true at the instant of a sunset that follows
\* the sunrise.
C5_Witness ==
  /\ AvailableRead /\ sunset = "off" /\ EventsExist
  /\ sunriseAt < sunsetAt /\ call.utcnow = sunsetAt
  /\ call.result = Return(TRUE)

\* C6: with the flag set to "False" available returns true at every instant,
\* whatever the events of the date, missing ones included.
C6_DisabledAlwaysAvailable ==
  (AvailableRead /\ sunset = "False") => call.result = Return(TRUE)

\* Reached: available read as true with the flag "False" on a date without
\* sunrise.
C6_Witness ==
  /\ AvailableRead /\ sunset = "False"
  /\ sunriseAt = NoEvent
  /\ call.result = Return(TRUE)

\* C10: the window is bypassed for the flag "False" alone: under every other
\* flag, the "off" the schema puts in the place of a missing option
\* included, available is not true outside [sunrise, sunset] (false when both
\* events exist).
C10_OnlyFalseBypasses ==
  /\ \A c \in Configs :
       PlatformSchema(c)["sunset"] = IF "sunset" \in DOMAIN c THEN c["sunset"] ELSE "off"
  /\ (AvailableRead /\ sunset # "False") =>
       /\ call.result # Return(TRUE) \/
            (EventsExist /\ sunriseAt <= call.utcnow /\ call.utcnow <= sunsetAt)
       /\ (EventsExist /\ (call.utcnow < sunriseAt \/ sunsetAt < call.utcnow)) =>
            call.result = Return(FALSE)

\* Reached: under the flag "false" available read as false after sunset.
C10_Witness ==
  /\ AvailableRead /\ sunset = "false" /\ EventsExist
  /\ sunsetAt < call.utcnow
  /\ call.result = Return(FALSE)

====
